---- MODULE Spec2Model ----
(***************************************************************************)
(* Model of scripts/make_init_simple_fs.py: the simple_fs image packer     *)
(* (make_simple_fs, collect_files, pack_file), the inspector               *)
(* (inspect_simple_fs) and the command-line layer (main).                  *)
(*                                                                         *)
(* Bytes are naturals 0..255, byte strings are sequences of bytes, text    *)
(* strings are sequences of Unicode code points.  A source tree is a set   *)
(* of nodes [path, kind, data]; path is the sequence of path components    *)
(* below the source directory (POSIX: '/' separates components, every      *)
(* other character, '\' included, may occur inside a component).           *)
(***************************************************************************)
EXTENDS Integers, Sequences, FiniteSets, TLC

(* ------------------------------------------------------------------ *)
(* Program constants                                                  *)
(* ------------------------------------------------------------------ *)
MAGIC == <<82, 65, 77, 68, 73, 83, 75, 0>>

FILE_MAGIC == 1179208773

BLOCK_SIZE == 512

FILE_TYPE_FILE == 0

FILE_TYPE_DIR == 1

MODE_FILE == 420

MODE_DIR == 493

HEADER_SIZE == 16

ENTRY_HEADER_SIZE == 32

NAME_ALIGN == 4

DOT == 46

SLASH == 47

BACKSLASH == 92

(* File names the code compares against, as code point sequences. *)
Cargo_lock == <<67, 97, 114, 103, 111, 46, 108, 111, 99, 107>>

Cargo_toml == <<67, 97, 114, 103, 111, 46, 116, 111, 109, 108>>

dot_gitignore == <<46, 103, 105, 116, 105, 103, 110, 111, 114, 101>>

SkippedSuffixes == { <<46, 100>>, <<46, 111>>, <<46, 97>>, <<46, 114, 108, 105, 98>> }

(* ------------------------------------------------------------------ *)
(* Bound of the model and the universe of source trees                *)
(* ------------------------------------------------------------------ *)
MaxNodes == 4

n_bin == <<98, 105, 110>>

n_hello_txt == <<104, 101, 108, 108, 111, 46, 116, 120, 116>>

n_a_o == <<97, 46, 111>>

n_dot_h == <<46, 104>>

n_f == <<102>>

n_c_d == <<99, 46, 100>>

n_e_acute == <<233>>

n_b_backslash_x == <<98, 92, 120>>

n_lnk == <<108, 110, 107>>

Content(n) == [i \in 1..n |-> 1 + (i % 251)]

Universe ==
    { [path |-> <<n_bin>>,              kind |-> "dir",   data |-> <<>>],
      [path |-> <<n_bin, n_hello_txt>>, kind |-> "file",  data |-> <<104, 101, 108, 108, 111>>],
      [path |-> <<n_bin, n_a_o>>,       kind |-> "file",  data |-> Content(1)],
      [path |-> <<n_dot_h>>,            kind |-> "dir",   data |-> <<>>],
      [path |-> <<n_dot_h, n_f>>,       kind |-> "file",  data |-> <<>>],
      [path |-> <<n_c_d>>,              kind |-> "dir",   data |-> <<>>],
      [path |-> <<Cargo_toml>>,         kind |-> "file",  data |-> Content(2)],
      [path |-> <<Cargo_lock>>,         kind |-> "file",  data |-> Content(2)],
      [path |-> <<dot_gitignore>>,      kind |-> "file",  data |-> Content(1)],
      [path |-> <<n_e_acute>>,          kind |-> "file",  data |-> Content(512)],
      [path |-> <<n_b_backslash_x>>,    kind |-> "file",  data |-> Content(513)],
      [path |-> <<n_lnk>>,              kind |-> "other", data |-> <<>>] }

Parent(p) == SubSeq(p, 1, Len(p) - 1)

(* A tree is closed under parents: every node below the root lies in a directory of the tree. *)
IsTree(T) ==
    \A n \in T : Len(n.path) > 1 =>
        \E d \in T : d.kind = "dir" /\ d.path = Parent(n.path)

Trees == { T \in SUBSET Universe : Cardinality(T) <= MaxNodes /\ IsTree(T) }

(* ------------------------------------------------------------------ *)
(* Byte-level helpers                                                 *)
(* ------------------------------------------------------------------ *)
align_to(size, alignment) == ((size + alignment - 1) \div alignment) * alignment

Zeros(n) == [i \in 1..n |-> 0]

(* struct.pack('<I', n): little-endian unsigned 32-bit *)
PackU32(n) ==
    << n % 256, (n \div 256) % 256, (n \div 65536) % 256, (n \div 16777216) % 256 >>

(* struct.unpack('<I', b) *)
UnpackU32(b) == b[1] + 256 * b[2] + 65536 * b[3] + 16777216 * b[4]

(* bytes read by f.read(n) at 0-based position pos: short at end of file *)
ReadAt(bytes, pos, n) ==
    IF pos >= Len(bytes) THEN <<>>
    ELSE SubSeq(bytes, pos + 1, IF pos + n <= Len(bytes) THEN pos + n ELSE Len(bytes))

(* str.encode('utf-8') *)
EncodeChar(c) ==
    IF c < 128 THEN <<c>>
    ELSE IF c < 2048 THEN << 192 + (c \div 64), 128 + (c % 64) >>
    ELSE IF c < 65536 THEN << 224 + (c \div 4096), 128 + ((c \div 64) % 64), 128 + (c % 64) >>
    ELSE << 240 + (c \div 262144), 128 + ((c \div 4096) % 64),
            128 + ((c \div 64) % 64), 128 + (c % 64) >>

RECURSIVE Utf8Encode(_)
Utf8Encode(s) == IF s = <<>> THEN <<>> ELSE EncodeChar(Head(s)) \o Utf8Encode(Tail(s))

IsCont(b, i) == i <= Len(b) /\ b[i] >= 128 /\ b[i] < 192

(* bytes.decode('utf-8'), strict: [ok |-> FALSE] stands for UnicodeDecodeError *)
RECURSIVE Utf8Decode(_)
Utf8Decode(b) ==
    IF b = <<>> THEN [ok |-> TRUE, text |-> <<>>]
    ELSE
      LET b1 == b[1]
          n  == IF b1 < 128 THEN 1
                ELSE IF b1 >= 194 /\ b1 < 224 /\ IsCont(b, 2) THEN 2
                ELSE IF b1 >= 224 /\ b1 < 240 /\ IsCont(b, 2) /\ IsCont(b, 3)
                        /\ (b1 = 224 => b[2] >= 160) /\ (b1 = 237 => b[2] < 160) THEN 3
                ELSE IF b1 >= 240 /\ b1 < 245 /\ IsCont(b, 2) /\ IsCont(b, 3) /\ IsCont(b, 4)
                        /\ (b1 = 240 => b[2] >= 144) /\ (b1 = 244 => b[2] < 144) THEN 4
                ELSE 0
          c  == IF n = 1 THEN b1
                ELSE IF n = 2 THEN (b1 - 192) * 64 + (b[2] - 128)
                ELSE IF n = 3 THEN (b1 - 224) * 4096 + (b[2] - 128) * 64 + (b[3] - 128)
                ELSE (b1 - 240) * 262144 + (b[2] - 128) * 4096 + (b[3] - 128) * 64 + (b[4] - 128)
      IN IF n = 0 THEN [ok |-> FALSE, text |-> <<>>]
         ELSE LET rest == Utf8Decode(SubSeq(b, n + 1, Len(b)))
              IN [ok |-> rest.ok, text |-> IF rest.ok THEN <<c>> \o rest.text ELSE <<>>]

(* ------------------------------------------------------------------ *)
(* pathlib helpers                                                    *)
(* ------------------------------------------------------------------ *)
PathName(p) == p[Len(p)]

(* PurePath.suffix: from the last '.' of the name, unless that dot is first or last *)
PathSuffix(p) ==
    LET name == PathName(p)
        dots == { i \in 1..Len(name) : name[i] = DOT }
    IN IF dots = {} THEN <<>>
       ELSE LET i == CHOOSE j \in dots : \A k \in dots : k <= j
            IN IF i > 1 /\ i < Len(name) THEN SubSeq(name, i, Len(name)) ELSE <<>>

(* str(rel_path) on POSIX: the components joined by '/' *)
RECURSIVE PathStr(_)
PathStr(p) ==
    IF Len(p) = 1 THEN p[1] ELSE p[1] \o <<SLASH>> \o PathStr(Tail(p))

(* str.replace('\\', '/') *)
ReplaceBackslash(s) == [i \in 1..Len(s) |-> IF s[i] = BACKSLASH THEN SLASH ELSE s[i]]

RECURSIVE StrLess(_, _)
StrLess(a, b) ==
    IF b = <<>> THEN FALSE
    ELSE IF a = <<>> THEN TRUE
    ELSE IF a[1] # b[1] THEN a[1] < b[1]
    ELSE StrLess(Tail(a), Tail(b))

(* PurePath.__lt__: the component tuples compared lexicographically *)
RECURSIVE PathLess(_, _)
PathLess(p, q) ==
    IF q = <<>> THEN FALSE
    ELSE IF p = <<>> THEN TRUE
    ELSE IF p[1] # q[1] THEN StrLess(p[1], q[1])
    ELSE PathLess(Tail(p), Tail(q))

(* sorted(src_dir.rglob('*')) *)
RECURSIVE Sorted(_)
Sorted(S) ==
    IF S = {} THEN <<>>
    ELSE LET m == CHOOSE x \in S : \A y \in S \ {x} : PathLess(x.path, y.path)
         IN <<m>> \o Sorted(S \ {m})

SelectKind(s, k) == SelectSeq(s, LAMBDA n : n.kind = k)

(* ------------------------------------------------------------------ *)
(* pack_file, collect_files                                           *)
(* ------------------------------------------------------------------ *)
(* the name test of pack_file: hidden and special names are skipped *)
SkippedByName(n) ==
    PathName(n.path)[1] = DOT \/ PathName(n.path) \in {Cargo_lock, Cargo_toml}

(* mutant: the name written is the last path component only *)
name_bytes_basename(n) == Utf8Encode(ReplaceBackslash(PathName(n.path)))

name_bytes(n) == Utf8Encode(ReplaceBackslash(PathStr(n.path)))

EntryHeader(name_len, data_len, file_type, mode) ==
    PackU32(FILE_MAGIC) \o PackU32(name_len) \o PackU32(data_len)
        \o PackU32(file_type) \o PackU32(mode) \o PackU32(0) \o PackU32(0) \o PackU32(0)

(* mutant: the name block is not padded to 4 bytes *)
name_aligned_unpadded(nb) == nb

name_aligned(nb) == nb \o Zeros(align_to(Len(nb), NAME_ALIGN) - Len(nb))

data_aligned(data) == data \o Zeros(align_to(Len(data), BLOCK_SIZE) - Len(data))

pack_file(n) ==
    IF SkippedByName(n) THEN <<>>
    ELSE IF n.kind \notin {"file", "dir"} THEN <<>>
    ELSE
      LET nb   == name_bytes(n)
          data == IF n.kind = "file" THEN n.data ELSE <<>>
          ft   == IF n.kind = "file" THEN FILE_TYPE_FILE ELSE FILE_TYPE_DIR
          mode == IF n.kind = "file" THEN MODE_FILE ELSE MODE_DIR
      IN EntryHeader(Len(nb), Len(data), ft, mode) \o name_aligned(nb) \o data_aligned(data)

(* pack_file reaches path.read_bytes() for this node *)
ReadsFile(n) == ~SkippedByName(n) /\ n.kind = "file"

(* mutant: the extension test is left out *)
KeptFile_NameOnly(n) == PathName(n.path) \notin {Cargo_lock, dot_gitignore}

KeptFile(n) ==
    /\ PathSuffix(n.path) \notin SkippedSuffixes
    /\ PathName(n.path) \notin {Cargo_lock, dot_gitignore}

collect_files(exists, T) ==
    IF ~exists THEN <<>>
    ELSE SelectKind(Sorted(T), "dir") \o SelectSeq(SelectKind(Sorted(T), "file"), KeptFile)

ImageHeader(count) == MAGIC \o PackU32(count) \o PackU32(0)

(* mutant: skipped items are appended (and counted) too *)
AppendPacked_Always(pf, packed) == Append(pf, packed)

(* "if packed: packed_files.append(packed)" *)
AppendPacked(pf, packed) == IF packed # <<>> THEN Append(pf, packed) ELSE pf

(* ------------------------------------------------------------------ *)
(* inspect_simple_fs                                                  *)
(* ------------------------------------------------------------------ *)
Min(a, b) == IF a <= b THEN a ELSE b

InspectResult(status, count, listing, err) ==
    [status |-> status, count |-> count, listing |-> listing, err |-> err]

(* mutant: only the low byte of the magic is compared *)
MagicOk_LowByte(magic) == magic % 256 = FILE_MAGIC % 256

MagicOk(magic) == magic = FILE_MAGIC

(* the for loop of inspect_simple_fs, from entry i at 0-based file position pos;  *)
(* "exception" stands for struct.error on a short header or UnicodeDecodeError    *)
RECURSIVE InspectLoop(_, _, _, _, _)
InspectLoop(img, pos, i, file_count, listing) ==
    IF i >= file_count THEN InspectResult("ok", file_count, listing, -1)
    ELSE
      LET header == ReadAt(img, pos, ENTRY_HEADER_SIZE)
      IN IF Len(header) < 20 THEN InspectResult("exception", file_count, listing, -1)
         ELSE
           LET magic     == UnpackU32(SubSeq(header, 1, 4))
               name_len  == UnpackU32(SubSeq(header, 5, 8))
               data_len  == UnpackU32(SubSeq(header, 9, 12))
               file_type == UnpackU32(SubSeq(header, 13, 16))
               mode      == UnpackU32(SubSeq(header, 17, 20))
               pos1      == pos + Len(header)
               raw       == ReadAt(img, pos1, align_to(name_len, NAME_ALIGN))
               name      == Utf8Decode(SubSeq(raw, 1, Min(name_len, Len(raw))))
               pos2      == pos1 + Len(raw) + align_to(data_len, BLOCK_SIZE)
               entry     == [kind |-> IF file_type = FILE_TYPE_FILE THEN "FILE" ELSE "DIR ",
                             name |-> name.text, size |-> data_len, mode |-> mode]
           IN IF ~MagicOk(magic)
                THEN InspectResult("bad_entry_magic", file_count, listing, i)
              ELSE IF ~name.ok
                THEN InspectResult("exception", file_count, listing, -1)
              ELSE InspectLoop(img, pos2, i + 1, file_count, Append(listing, entry))

inspect_simple_fs(img) ==
    IF ReadAt(img, 0, 8) # MAGIC THEN InspectResult("bad_magic", 0, <<>>, -1)
    ELSE IF Len(ReadAt(img, 8, 4)) < 4 THEN InspectResult("exception", 0, <<>>, -1)
    ELSE InspectLoop(img, Min(HEADER_SIZE, Len(img)), 0, UnpackU32(ReadAt(img, 8, 4)), <<>>)

(* ------------------------------------------------------------------ *)
(* State                                                              *)
(* ------------------------------------------------------------------ *)
VARIABLES
    src_exists,    \* src_dir.exists()
    tree,          \* the nodes below src_dir
    output,        \* the file at the output path: [exists, bytes]
    pc,            \* position of main / make_simple_fs
    files,         \* make_simple_fs: files
    packed_files,  \* make_simple_fs: packed_files
    idx,           \* index of the running for loop (1-based)
    result,        \* value returned by make_simple_fs: [set, count, size]
    exit_code,     \* return value of main in pack mode, -1 while running
    success_msg,   \* main printed the "Created" line
    corrupted,     \* index of the entry whose magic was overwritten, -1 if none
    clean,         \* the image as it was before an entry magic was overwritten
    inspected      \* outcome of main in inspect mode on the output path

vars == << src_exists, tree, output, pc, files, packed_files, idx, result,
           exit_code, success_msg, corrupted, clean, inspected >>

NoResult == [set |-> FALSE, count |-> 0, size |-> 0]

NotInspected == [status |-> "none", count |-> 0, listing |-> <<>>, err |-> -1, exit |-> -1]

Absent == [exists |-> FALSE, bytes |-> <<>>]

(* an image left at the output path by an earlier run *)
Stale == [exists |-> TRUE, bytes |-> ImageHeader(0) \o Zeros(BLOCK_SIZE - HEADER_SIZE)]

Init ==
    /\ src_exists \in BOOLEAN
    /\ tree \in Trees
    /\ (~src_exists => tree = {})
    /\ output \in {Absent, Stale}
    /\ pc = "start"
    /\ files = <<>>
    /\ packed_files = <<>>
    /\ idx = 1
    /\ result = NoResult
    /\ exit_code = -1
    /\ success_msg = FALSE
    /\ corrupted = -1
    /\ clean = <<>>
    /\ inspected = NotInspected

(* outcomes of a failed write of chunk to a file holding bytes: a prefix of the chunk got out *)
FailedWrites(bytes, chunk) ==
    { bytes \o SubSeq(chunk, 1, k) : k \in {0, Len(chunk) \div 2} }

(* ------------------------------------------------------------------ *)
(* make_simple_fs                                                     *)
(* ------------------------------------------------------------------ *)
(* src_dir does not exist: a bare header is written and (0, len(header)) returned *)
MakeEmptyImage ==
    /\ pc = "start" /\ ~src_exists
    /\ output' = [exists |-> TRUE,
                  bytes |-> ImageHeader(0) \o Zeros(HEADER_SIZE - Len(ImageHeader(0)))]
    /\ result' = [set |-> TRUE, count |-> 0, size |-> Len(output'.bytes)]
    /\ pc' = "returned"
    /\ UNCHANGED << src_exists, tree, files, packed_files, idx, exit_code, success_msg,
                    corrupted, clean, inspected >>

(* output.write_bytes(header) raises: the open failed, or the write did *)
MakeEmptyImageFail ==
    /\ pc = "start" /\ ~src_exists
    /\ \/ UNCHANGED output
       \/ \E b \in FailedWrites(<<>>, ImageHeader(0)) : output' = [exists |-> TRUE, bytes |-> b]
    /\ pc' = "raised"
    /\ UNCHANGED << src_exists, tree, files, packed_files, idx, result, exit_code,
                    success_msg, corrupted, clean, inspected >>

CollectFiles ==
    /\ pc = "start" /\ src_exists
    /\ files' = collect_files(src_exists, tree)
    /\ packed_files' = <<>>
    /\ idx' = 1
    /\ pc' = "pack"
    /\ UNCHANGED << src_exists, tree, output, result, exit_code, success_msg,
                    corrupted, clean, inspected >>

(* one iteration of "for item in files" *)
PackItem ==
    /\ pc = "pack" /\ idx <= Len(files)
    /\ packed_files' = AppendPacked(packed_files, pack_file(files[idx]))
    /\ idx' = idx + 1
    /\ UNCHANGED << src_exists, tree, output, pc, files, result, exit_code, success_msg,
                    corrupted, clean, inspected >>

(* path.read_bytes() raises inside pack_file *)
ReadFail ==
    /\ pc = "pack" /\ idx <= Len(files)
    /\ ReadsFile(files[idx])
    /\ pc' = "raised"
    /\ UNCHANGED << src_exists, tree, output, files, packed_files, idx, result, exit_code,
                    success_msg, corrupted, clean, inspected >>

(* open(output, 'wb'): the file is created or truncated *)
OpenOutput ==
    /\ pc = "pack" /\ idx > Len(files)
    /\ output' = [exists |-> TRUE, bytes |-> <<>>]
    /\ pc' = "write_header"
    /\ UNCHANGED << src_exists, tree, files, packed_files, idx, result, exit_code,
                    success_msg, corrupted, clean, inspected >>

(* mkdir or open raises: the output path is not touched *)
OpenFail ==
    /\ pc = "pack" /\ idx > Len(files)
    /\ pc' = "raised"
    /\ UNCHANGED << src_exists, tree, output, files, packed_files, idx, result, exit_code,
                    success_msg, corrupted, clean, inspected >>

WriteHeader ==
    /\ pc = "write_header"
    /\ LET header == ImageHeader(Len(packed_files))
       IN output' = [output EXCEPT !.bytes = @ \o header \o Zeros(HEADER_SIZE - Len(header))]
    /\ idx' = 1
    /\ pc' = "write_entries"
    /\ UNCHANGED << src_exists, tree, files, packed_files, result, exit_code, success_msg,
                    corrupted, clean, inspected >>

WriteEntry ==
    /\ pc = "write_entries" /\ idx <= Len(packed_files)
    /\ output' = [output EXCEPT !.bytes = @ \o packed_files[idx]]
    /\ idx' = idx + 1
    /\ UNCHANGED << src_exists, tree, pc, files, packed_files, result, exit_code,
                    success_msg, corrupted, clean, inspected >>

Padding(current_size) == Zeros(align_to(current_size, BLOCK_SIZE) - current_size)

(* the padding after the last entry, the close, output.stat() and the return *)
WritePadding ==
    /\ pc = "write_entries" /\ idx > Len(packed_files)
    /\ output' = [output EXCEPT !.bytes = @ \o Padding(Len(@))]
    /\ result' = [set |-> TRUE, count |-> Len(packed_files), size |-> Len(output'.bytes)]
    /\ pc' = "returned"
    /\ UNCHANGED << src_exists, tree, files, packed_files, idx, exit_code, success_msg,
                    corrupted, clean, inspected >>

(* the chunk the next f.write() is called with *)
NextChunk ==
    IF pc = "write_header" THEN ImageHeader(Len(packed_files))
    ELSE IF idx <= Len(packed_files) THEN packed_files[idx]
    ELSE Padding(Len(output.bytes))

(* an f.write() raises: the with block closes the file and the error propagates *)
WriteFail ==
    /\ pc \in {"write_header", "write_entries"}
    /\ NextChunk # <<>>
    /\ \E b \in FailedWrites(output.bytes, NextChunk) : output' = [output EXCEPT !.bytes = b]
    /\ pc' = "raised"
    /\ UNCHANGED << src_exists, tree, files, packed_files, idx, result, exit_code,
                    success_msg, corrupted, clean, inspected >>

(* ------------------------------------------------------------------ *)
(* main                                                               *)
(* ------------------------------------------------------------------ *)
MainSuccess ==
    /\ pc = "returned"
    /\ success_msg' = TRUE
    /\ exit_code' = 0
    /\ pc' = "exit"
    /\ UNCHANGED << src_exists, tree, output, files, packed_files, idx, result,
                    corrupted, clean, inspected >>

(* mutant: the except branch returns 0 *)
MainExcept_ExitZero ==
    /\ pc = "raised"
    /\ exit_code' = 0
    /\ pc' = "exit"
    /\ UNCHANGED << src_exists, tree, output, files, packed_files, idx, result,
                    success_msg, corrupted, clean, inspected >>

MainExcept ==
    /\ pc = "raised"
    /\ exit_code' = 1
    /\ pc' = "exit"
    /\ UNCHANGED << src_exists, tree, output, files, packed_files, idx, result,
                    success_msg, corrupted, clean, inspected >>

(* main in inspect mode, run on the output path after the pack run ended *)
MainInspect ==
    /\ pc = "exit" /\ inspected.status = "none"
    /\ inspected' =
         IF ~output.exists
           THEN [status |-> "no_file", count |-> 0, listing |-> <<>>, err |-> -1, exit |-> 1]
         ELSE LET r == inspect_simple_fs(output.bytes)
              IN [status |-> r.status, count |-> r.count, listing |-> r.listing,
                  err |-> r.err, exit |-> IF r.status = "exception" THEN 1 ELSE 0]
    /\ UNCHANGED << src_exists, tree, output, pc, files, packed_files, idx, result,
                    exit_code, success_msg, corrupted, clean >>

(* ------------------------------------------------------------------ *)
(* Environment: the entry_magic field of one entry is overwritten     *)
(* ------------------------------------------------------------------ *)
RECURSIVE SumLen(_, _)
SumLen(s, n) == IF n = 0 THEN 0 ELSE Len(s[n]) + SumLen(s, n - 1)

(* 0-based offset of entry i (0-based) of the image just written *)
EntryOffset(i) == HEADER_SIZE + SumLen(packed_files, i)

BadMagics == { 0, FILE_MAGIC + 1, FILE_MAGIC - 256, FILE_MAGIC + 16777216 }

Overwrite(bytes, pos, chunk) ==
    [j \in 1..Len(bytes) |->
        IF j > pos /\ j <= pos + Len(chunk) THEN chunk[j - pos] ELSE bytes[j]]

Corrupt ==
    /\ pc = "exit" /\ exit_code = 0 /\ corrupted = -1 /\ inspected.status = "none"
    /\ \E i \in 0..(result.count - 1), m \in BadMagics :
          /\ output' = [output EXCEPT !.bytes = Overwrite(@, EntryOffset(i), PackU32(m))]
          /\ corrupted' = i
    /\ clean' = output.bytes
    /\ UNCHANGED << src_exists, tree, pc, files, packed_files, idx, result, exit_code,
                    success_msg, inspected >>

Next ==
    \/ MakeEmptyImage
    \/ MakeEmptyImageFail
    \/ CollectFiles
    \/ PackItem
    \/ ReadFail
    \/ OpenOutput
    \/ OpenFail
    \/ WriteHeader
    \/ WriteEntry
    \/ WritePadding
    \/ WriteFail
    \/ MainSuccess
    \/ MainExcept
    \/ MainInspect
    \/ Corrupt

Spec == Init /\ [][Next]_vars

(* ================================================================== *)
(* Properties                                                         *)
(* ================================================================== *)
(* Reading an image by the format alone, independently of the inspector. *)
Field(img, off, k) == UnpackU32(SubSeq(img, off + 4 * k + 1, off + 4 * k + 4))

EntryEnd(img, off) ==
    off + 32 + align_to(Field(img, off, 1), 4) + align_to(Field(img, off, 2), 512)

HasEntryAt(img, off) ==
    /\ off + 32 <= Len(img)
    /\ Field(img, off, 0) = FILE_MAGIC
    /\ EntryEnd(img, off) <= Len(img)

(* number of consecutive well-framed entries found from offset off on *)
RECURSIVE CountEntries(_, _)
CountEntries(img, off) ==
    IF HasEntryAt(img, off) THEN 1 + CountEntries(img, EntryEnd(img, off)) ELSE 0

(* offset just past n consecutive entries from off, -1 if framing is lost before *)
RECURSIVE EndOfEntries(_, _, _)
EndOfEntries(img, off, n) ==
    IF n = 0 THEN off
    ELSE IF HasEntryAt(img, off) THEN EndOfEntries(img, EntryEnd(img, off), n - 1)
    ELSE -1

AllZero(img, from, to) == \A j \in from..to : img[j] = 0

(* make_simple_fs returned and the image is as it left it *)
Packed == result.set /\ corrupted = -1

Image == output.bytes

Listed == inspect_simple_fs(Image).listing

SlashesOf(name) == { i \in 1..Len(name) : name[i] = SLASH }

LastSlash(name) == CHOOSE i \in SlashesOf(name) : \A j \in SlashesOf(name) : j <= i

LastComponent(name) ==
    IF SlashesOf(name) = {} THEN name ELSE SubSeq(name, LastSlash(name) + 1, Len(name))

NodeAt(p) == CHOOSE n \in Universe : n.path = p

(* ---- C1 ---- *)
(* C1 (as claimed): every image make_simple_fs writes has a length that is a  *)
(* multiple of 512, and the size returned is that length.                     *)
C1_Claim ==
    Packed => (Len(Image) % 512 = 0 /\ result.size = Len(Image))

(* ---- C2 ---- *)
(* C2 (as claimed): for a missing or empty source directory the image starts  *)
(* with the magic, has entry_count 0 and reserved 0, is 512 bytes long, and   *)
(* make_simple_fs returns (0, 512).                                           *)
C2_Claim ==
    (Packed /\ tree = {}) =>
        /\ SubSeq(Image, 1, 8) = MAGIC
        /\ Field(Image, 8, 0) = 0
        /\ Field(Image, 12, 0) = 0
        /\ Len(Image) = 512
        /\ result.count = 0 /\ result.size = 512

(* ---- C3 ---- *)
(* C3: the entry_count field of the image header equals the number of         *)
(* EntryHeader records that follow it in the image, and the count returned.   *)
C3_Theorem ==
    Packed =>
        /\ Field(Image, 8, 0) = CountEntries(Image, 16)
        /\ Field(Image, 8, 0) = result.count

(* a source tree of three nodes one of which was dropped: two entries written *)
C3_Witness ==
    Packed /\ pc = "exit" /\ Cardinality(tree) = 3 /\ result.count = 2
        /\ CountEntries(Image, 16) = 2

(* ---- C4 ---- *)
(* C4: the first EntryHeader is at offset 16; each entry is its 32-byte       *)
(* header (magic 0x46494C45), align(name_length, 4) bytes of name and         *)
(* align(data_length, 512) bytes of data; every entry starts where the one    *)
(* before it ends; after the last entry only zero bytes follow, fewer than    *)
(* 512 of them.                                                               *)
C4_Theorem ==
    Packed =>
        LET end == EndOfEntries(Image, 16, Field(Image, 8, 0))
        IN /\ end >= 16
           /\ end <= Len(Image)
           /\ Len(Image) - end < 512
           /\ AllZero(Image, end + 1, Len(Image))

(* three entries, one of them with a data block of two sectors *)
C4_Witness ==
    Packed /\ result.count = 3 /\ Len(Image) > 1536
        /\ EndOfEntries(Image, 16, 3) > 16 /\ EndOfEntries(Image, 16, 3) < Len(Image)

(* ---- C5 ---- *)
(* the entries make_simple_fs wrote, in the order it wrote them *)
WrittenNodes == SelectSeq(files, LAMBDA n : pack_file(n) # <<>>)

ExpectedSummary ==
    [k \in 1..Len(WrittenNodes) |->
        [kind |-> IF WrittenNodes[k].kind = "file" THEN "FILE" ELSE "DIR ",
         name |-> PathStr(WrittenNodes[k].path),
         size |-> Len(WrittenNodes[k].data)]]

Summary(listing) ==
    [k \in 1..Len(listing) |->
        [kind |-> listing[k].kind, name |-> listing[k].name, size |-> listing[k].size]]

InspectedAfterPack ==
    pc = "exit" /\ exit_code = 0 /\ corrupted = -1 /\ inspected.status # "none"

(* C5 (as claimed): inspecting the image make_simple_fs produced reports no   *)
(* error and lists one entry per written file or directory, in write order,   *)
(* each with its relative path as name, its kind and its data length.         *)
C5_Claim ==
    InspectedAfterPack =>
        /\ inspected.status = "ok"
        /\ Summary(inspected.listing) = ExpectedSummary

(* ---- C6 ---- *)
(* C6 (as claimed): every entry whose path has a parent directory below the   *)
(* source root is preceded in the image by a directory entry for that parent. *)
C6_Claim ==
    Packed =>
        /\ Len(Listed) = Len(WrittenNodes)
        /\ \A k \in 1..Len(WrittenNodes) :
              Len(WrittenNodes[k].path) > 1 =>
                  \E j \in 1..(k - 1) :
                      /\ Listed[j].kind = "DIR "
                      /\ Listed[j].name = PathStr(Parent(WrittenNodes[k].path))

(* ---- C7 ---- *)
ExcludedName(name) ==
    \/ name[1] = DOT
    \/ PathSuffix(<<name>>) \in SkippedSuffixes
    \/ name \in {Cargo_lock, Cargo_toml}

(* C7 (as claimed): no entry of the image, file or directory, has a name      *)
(* that begins with a dot, has extension .d/.o/.a/.rlib, or is Cargo.lock or  *)
(* Cargo.toml; dropped entries are not counted.                               *)
C7_Claim ==
    Packed =>
        /\ \A k \in 1..Len(Listed) : ~ExcludedName(LastComponent(Listed[k].name))
        /\ result.count = Len(Listed)

(* a node of the source tree the packer drops *)
DroppedNode(n) ==
    \/ PathName(n.path)[1] = DOT
    \/ PathName(n.path) \in {Cargo_lock, Cargo_toml}
    \/ n.kind = "file" /\ PathSuffix(n.path) \in SkippedSuffixes
    \/ n.kind \notin {"file", "dir"}

EntryOf(n) ==
    { k \in 1..Len(Listed) :
        /\ Listed[k].name = ReplaceBackslash(PathStr(n.path))
        /\ Listed[k].kind = IF n.kind = "file" THEN "FILE" ELSE "DIR " }

(* C7 (amended): no source entry, file or directory, whose own name begins    *)
(* with a dot or is Cargo.lock or Cargo.toml is written, and no source file   *)
(* whose name has extension .d/.o/.a/.rlib is written; every other file and   *)
(* directory, a directory with such an extension included, is written once;   *)
(* entry_count counts exactly the written ones.                               *)
C7_Amended ==
    Packed =>
        /\ \A n \in tree : DroppedNode(n) => EntryOf(n) = {}
        /\ \A n \in tree : ~DroppedNode(n) => Cardinality(EntryOf(n)) = 1
        /\ result.count = Cardinality({ n \in tree : ~DroppedNode(n) })
        /\ result.count = Len(Listed)

(* a tree with an object file (dropped) and a directory named c.d (written) *)
C7_Witness ==
    /\ Packed /\ pc = "exit"
    /\ NodeAt(<<n_bin, n_a_o>>) \in tree /\ EntryOf(NodeAt(<<n_bin, n_a_o>>)) = {}
    /\ NodeAt(<<n_c_d>>) \in tree /\ EntryOf(NodeAt(<<n_c_d>>)) # {}
    /\ result.count = 2

(* ---- C8 ---- *)
(* C8: with the entry_magic of entry i overwritten by another value,          *)
(* the inspector lists entries 0..i-1 as in the intact image, reports the     *)
(* invalid magic at index i and lists nothing further.                        *)
C8_Theorem ==
    (corrupted >= 0 /\ inspected.status # "none") =>
        LET intact == inspect_simple_fs(clean)
        IN /\ intact.status = "ok"
           /\ Len(intact.listing) = result.count
           /\ inspected.status = "bad_entry_magic"
           /\ inspected.err = corrupted
           /\ inspected.listing = SubSeq(intact.listing, 1, corrupted)

(* the second of three entries is corrupted: one entry listed, error at index 1 *)
C8_Witness ==
    /\ corrupted = 1 /\ result.count = 3
    /\ inspected.status = "bad_entry_magic" /\ inspected.err = 1
    /\ Len(inspected.listing) = 1

(* ---- C9 ---- *)
(* a file with a valid image header but fewer complete entries than its       *)
(* entry_count, or not padded to 512 bytes                                    *)
PartialImage(o) ==
    /\ o.exists
    /\ Len(o.bytes) >= 16
    /\ SubSeq(o.bytes, 1, 8) = MAGIC
    /\ \/ EndOfEntries(o.bytes, 16, Field(o.bytes, 8, 0)) = -1
       \/ Len(o.bytes) % 512 # 0

(* an I/O error was raised: it is propagating, or main has ended without a result *)
Failed == pc = "raised" \/ (pc = "exit" /\ ~result.set)

(* C9 (as claimed): after an I/O error make_simple_fs returns no result, main *)
(* prints no success message and exits with 1, and no partial image is left   *)
(* at the output path.                                                        *)
C9_Claim ==
    Failed =>
        /\ ~result.set
        /\ ~success_msg
        /\ (pc = "exit" => exit_code = 1)
        /\ ~PartialImage(output)

RECURSIVE Concat(_)
Concat(ss) == IF ss = <<>> THEN <<>> ELSE Head(ss) \o Concat(Tail(ss))

(* the image make_simple_fs writes when nothing fails *)
FullImage ==
    LET body == ImageHeader(Len(packed_files)) \o Concat(packed_files)
    IN body \o Zeros(align_to(Len(body), 512) - Len(body))

IsPrefix(a, b) == Len(a) <= Len(b) /\ a = SubSeq(b, 1, Len(a))

(* C9 (amended): after an I/O error make_simple_fs returns no result, main    *)
(* prints no success message and exits with 1; the output path is either      *)
(* left as it was or holds a proper prefix of the image that was being        *)
(* written (a partial image can remain).                                      *)
C9_Amended ==
    Failed =>
        /\ ~result.set
        /\ ~success_msg
        /\ exit_code # 0
        /\ (pc = "exit" => exit_code = 1)
        /\ \/ output \in {Absent, Stale}
           \/ /\ output.exists
              /\ IsPrefix(output.bytes, FullImage)
              /\ Len(output.bytes) < Len(FullImage)

(* the write of the second entry failed: main exited with 1, a partial image is left *)
C9_Witness ==
    /\ pc = "exit" /\ exit_code = 1 /\ ~success_msg
    /\ Len(packed_files) = 2 /\ idx = 2
    /\ PartialImage(output)

(* ---- C10 ---- *)
ExampleTree == { NodeAt(<<n_bin>>), NodeAt(<<n_bin, n_hello_txt>>) }

(* what the example fixes whatever the size of the file entry's name block *)
ExampleCommon ==
    /\ result.count = 2
    /\ Field(Image, 8, 0) = 2
    /\ Field(Image, 16, 0) = FILE_MAGIC
    /\ Field(Image, 16, 2) = 0
    /\ Field(Image, 16, 3) = FILE_TYPE_DIR
    /\ Field(Image, 16, 4) = 493
    /\ EntryEnd(Image, 16) = 16 + 32 + 4
    /\ Field(Image, 52, 0) = FILE_MAGIC
    /\ Field(Image, 52, 2) = 5
    /\ Field(Image, 52, 3) = FILE_TYPE_FILE
    /\ Field(Image, 52, 4) = 420
    /\ Len(Image) % 512 = 0
    /\ Len(Image) - EntryEnd(Image, 52) < 512
    /\ result.size = Len(Image)

(* C10 (as claimed): bin/ and the 5-byte bin/hello.txt give entry_count 2, a  *)
(* directory entry of 32 + 4 bytes and a file entry of 32 + 8 + 512 bytes.    *)
C10_Claim ==
    (Packed /\ tree = ExampleTree) =>
        /\ ExampleCommon
        /\ EntryEnd(Image, 52) = 52 + 32 + 8 + 512
        /\ SubSeq(Image, 52 + 32 + 8 + 1, 52 + 32 + 8 + 5) = <<104, 101, 108, 108, 111>>

(* C10 (amended): as claimed, except that the file entry is 32 + 16 + 512     *)
(* bytes: its name is the 13-byte relative path bin/hello.txt, whose name     *)
(* block is 16 bytes.                                                         *)
C10_Amended ==
    (Packed /\ tree = ExampleTree) =>
        /\ ExampleCommon
        /\ Field(Image, 52, 1) = 13
        /\ EntryEnd(Image, 52) = 52 + 32 + 16 + 512
        /\ SubSeq(Image, 52 + 32 + 16 + 1, 52 + 32 + 16 + 5) = <<104, 101, 108, 108, 111>>
        /\ Len(Image) = 1024

C10_Witness ==
    Packed /\ pc = "exit" /\ tree = ExampleTree /\ Len(Image) = 1024

====
